---------------------------- MODULE Spec2Model ----------------------------
(***************************************************************************)
(* A model of Nielsen (nielsen/config.py, nielsen/fetcher.py,              *)
(* nielsen/media.py, nielsen/processor.py, nielsen/bin/cli/main.py).       *)
(*                                                                         *)
(* Strings are sequences of one-character strings, so that str.lower,     *)
(* str.title, capwords, the filename patterns and TV.__str__ are computed  *)
(* character by character as the code computes them.                       *)
(***************************************************************************)
EXTENDS Integers, Sequences, FiniteSets, TLC

VARIABLES
    ids,        \* the "tvmaze/ids" section of the global ConfigParser
    calls,      \* the get_series_id calls the last operation made (a spy)
    returned,   \* series name -> the non-zero id get_series_id last returned
    fs,         \* the filesystem: path -> file (inode) number
    dirs,       \* the directories that exist
    attrs,      \* file number -> [mode, owner]
    cfg,        \* the options of the "nielsen"/"tv" sections read at run time
    alias,      \* the "tv/transform/series" section
    cli,        \* the CLI process command: [files, i, status, before]
    pc,         \* position of Processor.process in the current file
    media,      \* the Media (TV) object of the current Processor.process
    stages,     \* the stage methods the current Processor.process has called
    log,        \* the log records the current Processor.process has emitted
    err,        \* the exception that ended the current Processor.process
    done,       \* the paths that completed Processor.process calls renamed to
    fn,         \* the function called on its own, with its arguments
    res         \* what that call has computed so far

vars == <<ids, calls, returned, fs, dirs, attrs, cfg, alias, cli, pc, media,
          stages, log, err, done, fn, res>>

---------------------------------------------------------------------------
(* Bounds of the model.                                                    *)

MaxId == 2          \* catalog series ids are 1..MaxId
MaxResults == 2     \* length of a search result list
MaxFiles == 3
\* at most this many inputs are typed into one picker
MaxPrompts == 3
\* a series has at most this many seasons, numbered from 1
MaxSeasons == 2       \* files handed to "process" commands, over all commands

---------------------------------------------------------------------------
(* Characters and the str methods the code uses.                           *)

Lowers == <<"a","b","c","d","e","f","g","h","i","j","k","l","m",
            "n","o","p","q","r","s","t","u","v","w","x","y","z">>
Uppers == <<"A","B","C","D","E","F","G","H","I","J","K","L","M",
            "N","O","P","Q","R","S","T","U","V","W","X","Y","Z">>
Digits == <<"0","1","2","3","4","5","6","7","8","9">>

IsLower(c) == \E i \in 1..26 : Lowers[i] = c
IsUpper(c) == \E i \in 1..26 : Uppers[i] = c
IsLetter(c) == IsLower(c) \/ IsUpper(c)
IsDigit(c) == \E i \in 1..10 : Digits[i] = c
IsWord(c) == IsLetter(c) \/ IsDigit(c) \/ c = "_"
IsSpace(c) == c = " "
IsDot(c) == c = "."

LowerChar(c) == IF IsUpper(c) THEN Lowers[CHOOSE i \in 1..26 : Uppers[i] = c] ELSE c
UpperChar(c) == IF IsLower(c) THEN Uppers[CHOOSE i \in 1..26 : Lowers[i] = c] ELSE c
DigitVal(c) == (CHOOSE i \in 1..10 : Digits[i] = c) - 1

\* s[i], or "" outside the string
At(s, i) == IF i \in 1..Len(s) THEN s[i] ELSE ""

\* s[a..b] (empty when a > b)
Sub(s, a, b) == IF a > b THEN << >> ELSE SubSeq(s, a, b)

\* str.lower()
StrLower(s) == [i \in 1..Len(s) |-> LowerChar(s[i])]

\* str.title(): a letter after a letter is lowered, any other letter is raised
StrTitle(s) == [i \in 1..Len(s) |->
                  IF i > 1 /\ IsLetter(s[i-1]) THEN LowerChar(s[i]) ELSE UpperChar(s[i])]

\* str.replace(".", " ")
DotsToSpaces(s) == [i \in 1..Len(s) |-> IF s[i] = "." THEN " " ELSE s[i]]

\* str.strip()
StrStrip(s) ==
    LET keep == {i \in 1..Len(s) : ~IsSpace(s[i])}
    IN  IF keep = {} THEN << >>
        ELSE Sub(s, CHOOSE i \in keep : \A j \in keep : i <= j,
                    CHOOSE i \in keep : \A j \in keep : j <= i)

\* str.capitalize()
StrCapitalize(s) == [i \in 1..Len(s) |-> IF i = 1 THEN UpperChar(s[i]) ELSE LowerChar(s[i])]

\* string.capwords(): split on runs of whitespace, capitalize, join with " "
RECURSIVE CapWords(_)
CapWords(s) ==
    LET t == StrStrip(s)
        sp == {i \in 1..Len(t) : IsSpace(t[i])}
    IN  IF t = << >> THEN << >>
        ELSE IF sp = {} THEN StrCapitalize(t)
        ELSE LET k == CHOOSE i \in sp : \A j \in sp : i <= j
             IN  StrCapitalize(Sub(t, 1, k - 1)) \o <<" ">> \o CapWords(Sub(t, k + 1, Len(t)))

\* int() of a string of decimal digits
RECURSIVE StrToInt(_)
StrToInt(s) ==
    IF s = << >> THEN 0
    ELSE 10 * StrToInt(Sub(s, 1, Len(s) - 1)) + DigitVal(s[Len(s)])

\* format(n, "d")
RECURSIVE IntToStr(_)
IntToStr(n) ==
    IF n < 10 THEN <<Digits[n + 1]>>
    ELSE IntToStr(n \div 10) \o <<Digits[(n % 10) + 1]>>

\* format(n, "02d")
Fmt02d(n) == IF n < 10 THEN <<"0">> \o IntToStr(n) ELSE IntToStr(n)

---------------------------------------------------------------------------
(* The filename patterns of TV._load_patterns, matched as re.fullmatch     *)
(* matches them: a lazy group takes the shortest text that lets the rest   *)
(* match, a greedy one the longest.                                        *)

Min(S) == CHOOSE x \in S : \A y \in S : x <= y
Max(S) == CHOOSE x \in S : \A y \in S : y <= x

\* the last index of the longest run of P-characters that starts at i (i-1: no run)
RunEnd(s, i, P(_)) == Min({j \in i..(Len(s) + 1) : ~P(At(s, j))}) - 1

AllDigits(s, a, b) == \A i \in a..b : IsDigit(At(s, i))
IsS(c) == c \in {"S", "s"}
IsE(c) == c \in {"E", "e"}
IsSepHy(c) == IsSpace(c) \/ c = "-"

NoMatch == [ok |-> FALSE, series |-> << >>, season |-> << >>, episode |-> << >>,
            title |-> << >>]
Groups(series, season, episode, title) ==
    [ok |-> TRUE, series |-> series, season |-> season, episode |-> episode,
     title |-> title]

\* (\d{4}|\(\d{4}\)) at i: the index of its last character, 0 when it is not there
YearEnd(s, i) ==
    IF AllDigits(s, i, i + 3) THEN i + 3
    ELSE IF At(s, i) = "(" /\ AllDigits(s, i + 1, i + 4) /\ At(s, i + 5) = ")" THEN i + 5
    ELSE 0

\* \.*(?P<title>.*)?\.+(?P<extension>\w+)$ from index q
TailW(s, q) ==
    LET nonword == {i \in 1..Len(s) : ~IsWord(s[i])}
        L == IF nonword = {} THEN 0 ELSE Max(nonword)
        d == RunEnd(s, q, IsDot) - q + 1
        k == IF d < L - q THEN d ELSE L - q
    IN  IF L >= 1 /\ L < Len(s) /\ s[L] = "." /\ L >= q
        THEN [ok |-> TRUE, title |-> Sub(s, q + k, L - 1)]
        ELSE [ok |-> FALSE, title |-> << >>]

\* (?P<title>.*)\.(?P<extension>.+)$ from index q
TailAny(s, q) ==
    LET dots == {i \in q..(Len(s) - 1) : s[i] = "."}
    IN  IF dots # {}
        THEN [ok |-> TRUE, title |-> Sub(s, q, Max(dots) - 1)]
        ELSE [ok |-> FALSE, title |-> << >>]

\* pattern 1 after a series of length a:
\* \.+(year)?\.*S(\d{2})\.?E(\d{2}) and the tail, ignoring case
SxxEyyRest(s, a) ==
    LET e == RunEnd(s, a + 1, IsDot)
        y == YearEnd(s, e + 1)
        p == IF IsS(At(s, e + 1)) THEN e + 1
             ELSE IF y # 0 THEN RunEnd(s, y + 1, IsDot) + 1 ELSE 0
        x == IF At(s, p + 3) = "." THEN p + 4 ELSE p + 3
        tail == TailW(s, x + 3)
    IN  IF /\ e >= a + 1 /\ p # 0 /\ IsS(At(s, p)) /\ AllDigits(s, p + 1, p + 2)
           /\ IsE(At(s, x)) /\ AllDigits(s, x + 1, x + 2) /\ tail.ok
        THEN Groups(Sub(s, 1, a), Sub(s, p + 1, p + 2), Sub(s, x + 1, x + 2), tail.title)
        ELSE NoMatch

\* (?P<season>\d{1,2})(?P<episode>\d{2}) and the tail from index d
CompactDigits(s, a, d) ==
    IF d # 0 /\ AllDigits(s, d, d + 3) /\ TailW(s, d + 4).ok
    THEN Groups(Sub(s, 1, a), Sub(s, d, d + 1), Sub(s, d + 2, d + 3), TailW(s, d + 4).title)
    ELSE IF d # 0 /\ AllDigits(s, d, d + 2) /\ TailW(s, d + 3).ok
    THEN Groups(Sub(s, 1, a), Sub(s, d, d), Sub(s, d + 1, d + 2), TailW(s, d + 3).title)
    ELSE NoMatch

\* pattern 2 after a series of length a: \.+(year)?\.(\d{1,2})(\d{2}) and the tail
YearCompactRest(s, a) ==
    LET e == RunEnd(s, a + 1, IsDot)
        y == YearEnd(s, e + 1)
        withYear == IF y # 0 /\ At(s, y + 1) = "." THEN y + 2 ELSE 0
        noYear == IF e >= a + 2 THEN e + 1 ELSE 0
    IN  IF e < a + 1 THEN NoMatch
        ELSE IF CompactDigits(s, a, withYear).ok THEN CompactDigits(s, a, withYear)
        ELSE CompactDigits(s, a, noYear)

\* pattern 3 after a series of length a: \.+S?(\d{1,})\.?E?(\d{2,}) and the tail
LooseRest(s, a) ==
    LET e == RunEnd(s, a + 1, IsDot)
        d == IF IsS(At(s, e + 1)) THEN e + 2 ELSE e + 1
        x == RunEnd(s, d, IsDigit) + 1
        es == IF At(s, x) = "." THEN (IF IsE(At(s, x + 1)) THEN x + 2 ELSE x + 1)
              ELSE IF IsE(At(s, x)) THEN x + 1 ELSE 0
        ee == RunEnd(s, es, IsDigit)
    IN  IF e < a + 1 \/ x - d < 1 THEN NoMatch
        ELSE IF es # 0 /\ ee - es + 1 >= 2 /\ TailW(s, ee + 1).ok
        THEN Groups(Sub(s, 1, a), Sub(s, d, x - 1), Sub(s, es, ee), TailW(s, ee + 1).title)
        ELSE IF x - d >= 3 /\ TailW(s, x).ok
        THEN Groups(Sub(s, 1, a), Sub(s, d, x - 3), Sub(s, x - 2, x - 1), TailW(s, x).title)
        ELSE NoMatch

\* pattern 4 after a series of length a: \s+-(\d{2})\.(\d{2})-\s*(.*)\.(.+)$
HyphenDotRest(s, a) ==
    LET e == RunEnd(s, a + 1, IsSpace)
        q == RunEnd(s, e + 8, IsSpace) + 1
    IN  IF /\ e >= a + 1 /\ At(s, e + 1) = "-" /\ AllDigits(s, e + 2, e + 3)
           /\ At(s, e + 4) = "." /\ AllDigits(s, e + 5, e + 6) /\ At(s, e + 7) = "-"
           /\ TailAny(s, q).ok
        THEN Groups(Sub(s, 1, a), Sub(s, e + 2, e + 3), Sub(s, e + 5, e + 6), TailAny(s, q).title)
        ELSE NoMatch

\* pattern 5 after a series of length a:
\* [\s-]+(\d{1,2})(\d{2,})[\s-]+(.*)\.(.+)$, the series ending in [^\s-]
HyphenRunRest(s, a) ==
    LET e == RunEnd(s, a + 1, IsSepHy)
        x == RunEnd(s, e + 1, IsDigit)
        m == x - e
        e2 == RunEnd(s, x + 1, IsSepHy)
        sl == IF m >= 4 THEN 2 ELSE 1
    IN  IF /\ a >= 2 /\ ~IsSepHy(At(s, a)) /\ e >= a + 1 /\ m >= 3 /\ e2 >= x + 1
           /\ TailAny(s, e2 + 1).ok
        THEN Groups(Sub(s, 1, a), Sub(s, e + 1, e + sl), Sub(s, e + sl + 1, x),
                    TailAny(s, e2 + 1).title)
        ELSE NoMatch

\* pattern 6 after a series of length a: S(\d{1,2})E(\d{2,})(.*)\.(.+)$, case-sensitive
LastDitchRest(s, a) ==
    LET x == RunEnd(s, a + 2, IsDigit)
        m == x - (a + 1)
        ee == RunEnd(s, x + 2, IsDigit)
    IN  IF /\ At(s, a + 1) = "S" /\ m \in {1, 2} /\ At(s, x + 1) = "E"
           /\ ee - (x + 1) >= 2 /\ TailAny(s, ee + 1).ok
        THEN Groups(Sub(s, 1, a), Sub(s, a + 2, x), Sub(s, x + 2, ee), TailAny(s, ee + 1).title)
        ELSE NoMatch

\* the six patterns: the series group is lazy (.+?) in the first two, greedy after
Pattern1(s) ==
    LET A == {a \in 1..Len(s) : SxxEyyRest(s, a).ok}
    IN  IF A = {} THEN NoMatch ELSE SxxEyyRest(s, Min(A))
Pattern2(s) ==
    LET A == {a \in 1..Len(s) : YearCompactRest(s, a).ok}
    IN  IF A = {} THEN NoMatch ELSE YearCompactRest(s, Min(A))
Pattern3(s) ==
    LET A == {a \in 1..Len(s) : LooseRest(s, a).ok}
    IN  IF A = {} THEN NoMatch ELSE LooseRest(s, Max(A))
Pattern4(s) ==
    LET A == {a \in 1..Len(s) : HyphenDotRest(s, a).ok}
    IN  IF A = {} THEN NoMatch ELSE HyphenDotRest(s, Max(A))
Pattern5(s) ==
    LET A == {a \in 1..Len(s) : HyphenRunRest(s, a).ok}
    IN  IF A = {} THEN NoMatch ELSE HyphenRunRest(s, Max(A))
Pattern6(s) ==
    LET A == {a \in 1..Len(s) : LastDitchRest(s, a).ok}
    IN  IF A = {} THEN NoMatch ELSE LastDitchRest(s, Max(A))

\* Media._match: the groups of the first pattern that matches the file name
OrElse(r, alt) == IF r.ok THEN r ELSE alt

MatchName(s) ==
    OrElse(Pattern1(s), OrElse(Pattern2(s), OrElse(Pattern3(s),
        OrElse(Pattern4(s), OrElse(Pattern5(s), Pattern6(s))))))

---------------------------------------------------------------------------
(* The global ConfigParser (nielsen/config.py).  A section is a record     *)
(* [present, opts]; opts maps option names, as optionxform stores them, to *)
(* their string values.                                                    *)

\* the empty option table
NoOpts == [k \in {} |-> << >>]

\* a parser that keeps option names as they are written
OptionXFormExact(option) == option

\* ConfigParser.optionxform: option names are lower-cased
OptionXForm(option) == StrLower(option)

\* str(bool)
BoolStr(b) == IF b THEN <<"T","r","u","e">> ELSE <<"F","a","l","s","e">>

\* the option names of the default section ("nielsen")
DefaultKeys ==
    { <<"f","e","t","c","h">>, <<"t","r","a","n","s","f","o","r","m">>,
      <<"i","n","t","e","r","a","c","t","i","v","e">>,
      <<"s","i","m","u","l","a","t","e">>,
      <<"l","i","b","r","a","r","y">>, <<"l","o","g","f","i","l","e">>,
      <<"l","o","g","l","e","v","e","l">>, <<"m","o","d","e">>,
      <<"o","r","g","a","n","i","z","e">>, <<"r","e","n","a","m","e">> }

\* the value of option k of the default section; c holds the run-time switches
DefaultValue(c, k) ==
    IF k = <<"m","o","d","e">> THEN <<"6","4","4">>
    ELSE IF k = <<"l","i","b","r","a","r","y">> THEN <<"/","l","i","b">>
    ELSE IF k = <<"l","o","g","f","i","l","e">> THEN <<"~","/","l","o","g">>
    ELSE IF k = <<"l","o","g","l","e","v","e","l">> THEN <<"W","A","R","N","I","N","G">>
    ELSE IF k = <<"s","i","m","u","l","a","t","e">> THEN BoolStr(c.simulate)
    ELSE IF k = <<"i","n","t","e","r","a","c","t","i","v","e">> THEN BoolStr(c.interactive)
    ELSE BoolStr(TRUE)

\* ConfigParser.has_option(section, option) for a section other than the default
\* one: a missing section has no options; a present one also shows the defaults
HasOption(section, option) ==
    /\ section.present
    /\ \/ OptionXForm(option) \in DOMAIN section.opts
       \/ OptionXForm(option) \in DefaultKeys

\* ConfigParser.get(section, option), given HasOption: the section's own value
\* shadows the default
GetOption(c, section, option) ==
    IF OptionXForm(option) \in DOMAIN section.opts
    THEN section.opts[OptionXForm(option)]
    ELSE DefaultValue(c, OptionXForm(option))

\* ConfigParser.set(section, option, value), the section being present
SetOption(section, option, value) ==
    [present |-> TRUE,
     opts |-> [k \in DOMAIN section.opts \cup {OptionXForm(option)} |->
                 IF k = OptionXForm(option) THEN value ELSE section.opts[k]]]

\* config.add_section when the section is missing
AddSection(section) == IF section.present THEN section ELSE [present |-> TRUE, opts |-> NoOpts]

---------------------------------------------------------------------------
(* Media.transform, the TV.metadata setter, TV.__str__, TV.orgdir          *)
(* (nielsen/media.py).                                                     *)

\* Media.transform("series")
Transform(c, section, series) ==
    IF ~section.present THEN series
    ELSE IF ~HasOption(section, series) THEN series
    ELSE GetOption(c, section, series)

\* the release tags of the TV.metadata setter, lower-cased
Tags == { <<"1","0","8","0","p">>, <<"7","2","0","p">>, <<"h","d","t","v">>,
          <<"w","e","b">>, <<"p","r","o","p","e","r">>, <<"r","e","p","a","c","k">>,
          <<"r","e","r","i","p">> }

TagAt(t, i) ==
    \E tag \in Tags : /\ i + Len(tag) - 1 <= Len(t)
                      /\ StrLower(Sub(t, i, i + Len(tag) - 1)) = tag

\* re.sub(r"\(?(1080p|720p|HDTV|WEB|PROPER|REPACK|RERIP)\)?.*", "", t), ignoring case
StripTags(t) ==
    LET cut == {i \in 1..Len(t) : TagAt(t, i) \/ (t[i] = "(" /\ TagAt(t, i + 1))}
    IN  IF cut = {} THEN t ELSE Sub(t, 1, Min(cut) - 1)

\* the TV.metadata setter applied to the groups of Media._match ({} on no match)
SetMetadata(c, section, g) ==
    [series |-> Transform(c, section, StrTitle(StrStrip(DotsToSpaces(g.series)))),
     season |-> StrToInt(g.season),
     episode |-> StrToInt(g.episode),
     title |-> CapWords(StrStrip(StripTags(StrStrip(DotsToSpaces(g.title)))))]

Unknown == <<"U","n","k","n","o","w","n">>

\* TV.__str__
TVStr(m) ==
    (IF m.series = << >> THEN Unknown ELSE m.series)
    \o <<" ", "-">> \o Fmt02d(m.season) \o <<".">> \o Fmt02d(m.episode) \o <<"-", " ">>
    \o (IF m.title = << >> THEN Unknown ELSE m.title)

\* pathlib's PurePath.suffix of a file name
Suffix(name) ==
    LET dots == {i \in 1..Len(name) : name[i] = "."}
    IN  IF dots # {} /\ Max(dots) > 1 /\ Max(dots) < Len(name)
        THEN Sub(name, Max(dots), Len(name)) ELSE << >>

\* path.with_stem(stem)
WithStem(path, stem) == [dir |-> path.dir, name |-> stem \o Suffix(path.name)]

\* the characters of the model in the order of their code points
CodePoints == <<" ", "(", ")", "-", ".">> \o Digits \o Uppers \o Lowers
Ord(ch) == CHOOSE i \in 1..Len(CodePoints) : CodePoints[i] = ch

\* s < t for two str
RECURSIVE StrLess(_, _)
StrLess(s, t) ==
    IF t = << >> THEN FALSE
    ELSE IF s = << >> THEN TRUE
    ELSE IF s[1] = t[1] THEN StrLess(Tail(s), Tail(t))
    ELSE Ord(s[1]) < Ord(t[1])

\* p < q for two lists of str
RECURSIVE PartsLess(_, _)
PartsLess(p, q) ==
    IF q = << >> THEN FALSE
    ELSE IF p = << >> THEN TRUE
    ELSE IF p[1] = q[1] THEN PartsLess(Tail(p), Tail(q))
    ELSE StrLess(p[1], q[1])

\* p < q for two pathlib paths: their parts are compared
PathLess(p, q) == PartsLess(p.dir \o <<p.name>>, q.dir \o <<q.name>>)

\* a == b for two TV objects: the __eq__ the dataclass generates compares the
\* fields _path, _metadata (always {}), series, series_id, season, episode,
\* title
TVEq(a, b) ==
    /\ a.path = b.path
    /\ a.series = b.series
    /\ a.series_id = b.series_id
    /\ a.season = b.season
    /\ a.episode = b.episode
    /\ a.title = b.title

\* a < b for two TV objects: the __lt__ that order=True generates compares the
\* tuples of the same fields, the first field that differs deciding
TVLess(a, b) ==
    IF a.path # b.path THEN PathLess(a.path, b.path)
    ELSE IF a.series # b.series THEN StrLess(a.series, b.series)
    ELSE IF a.series_id # b.series_id THEN a.series_id < b.series_id
    ELSE IF a.season # b.season THEN a.season < b.season
    ELSE IF a.episode # b.episode THEN a.episode < b.episode
    ELSE StrLess(a.title, b.title)

\* TV.infer on the file name the record m generates with the given suffix:
\* whether a pattern matches it, and the record the metadata setter builds
Reinfer(c, section, m, suffix) ==
    [ok |-> MatchName(TVStr(m) \o suffix).ok,
     record |-> SetMetadata(c, section, MatchName(TVStr(m) \o suffix))]

Library == << <<"l","i","b">> >>
Inbox == << <<"i","n">> >>
SeasonDir(n) == <<"S","e","a","s","o","n"," ">> \o Fmt02d(n)

\* TV.orgdir: library / f"{series}/Season {season:02d}/"; with an empty series the
\* joined text starts with "/" and pathlib drops the library
OrgDir(m) ==
    IF m.series = << >> THEN << SeasonDir(m.season) >>
    ELSE Library \o << m.series, SeasonDir(m.season) >>

---------------------------------------------------------------------------
(* The series resolver and the metadata fetcher: class TVMaze              *)
(* (nielsen/fetcher.py).  A remote answer is an input of the operation.    *)

\* answers of /search/shows (a list of shows and the picker's final choice),
\* of /singlesearch/shows, and a request that raises (transport, bad payload)
RECURSIVE SeqsUpTo(_, _)
SeqsUpTo(S, n) ==
    IF n = 0 THEN {<< >>}
    ELSE SeqsUpTo(S, n - 1) \cup
         {Append(q, x) : q \in {r \in SeqsUpTo(S, n - 1) : Len(r) = n - 1}, x \in S}

Answer(kind, shows, pick, id) == [kind |-> kind, shows |-> shows, pick |-> pick, id |-> id]
NoAnswer == Answer("none", << >>, 1, 0)
RequestError == Answer("error", << >>, 1, 0)
\* a search lists no show twice; pick is the entry the user selects
SearchAnswers ==
    {RequestError} \cup
    {Answer("results", r, k, 0) :
        r \in {q \in SeqsUpTo(1..MaxId, MaxResults) :
                  \A i, j \in 1..Len(q) : i # j => q[i] # q[j]},
        k \in 1..MaxResults}
SingleAnswers ==
    {RequestError, Answer("notok", << >>, 1, 0)} \cup
    {Answer("ok", << >>, 1, i) : i \in 0..MaxId}

\* the answers a get_series_id call can consume: none on the local path
AnswersFor(section, series, interactive) ==
    IF HasOption(section, series) THEN {NoAnswer}
    ELSE IF interactive
         THEN {a \in SearchAnswers : a.kind = "error" \/ a.pick <= Max({1, Len(a.shows)})}
         ELSE SingleAnswers

\* what a lookup gives back: it raised, or the id it returns
Outcome(raised, id) == [raised |-> raised, id |-> id]

IsIntStr(v) == v # << >> /\ AllDigits(v, 1, Len(v))

\* TVMaze.get_series_id_local: config.getint(IDS, series, fallback=0)
GetSeriesIdLocal(c, section, series) ==
    IF ~HasOption(section, series) THEN Outcome(FALSE, 0)
    ELSE IF IsIntStr(GetOption(c, section, series))
         THEN Outcome(FALSE, StrToInt(GetOption(c, section, series)))
         ELSE Outcome(TRUE, 0)

\* results[i] of a Python list: a negative index counts from the end
PyIndex(results, i) ==
    IF 0 <= i /\ i < Len(results) THEN [raised |-> "", item |-> results[i + 1]]
    ELSE IF 0 - Len(results) <= i /\ i < 0
    THEN [raised |-> "", item |-> results[Len(results) + i + 1]]
    ELSE [raised |-> "IndexError", item |-> 0]

\* a picker loop that only tests the upper end of the range
PromptAgainUpper(selection, n) == selection >= n

\* the loop condition of TVMaze.pick_series: selection is no index of results
PromptAgain(selection, n) == 0 > selection \/ selection >= n

\* TVMaze.pick_series: the result the picker settles on
PickSeries(results, pick) == results[pick]

\* a search that takes the first result without asking the picker
GetSeriesIdSearchFirst(a) ==
    IF a.kind = "error" THEN Outcome(TRUE, 0)
    ELSE IF Len(a.shows) = 0 THEN Outcome(FALSE, 0)
    ELSE Outcome(FALSE, a.shows[1])

\* the number of times get_series_id_search calls its picker
PickerCalls(a) ==
    IF a.kind = "error" THEN 0
    ELSE IF Len(a.shows) = 0 THEN 0
    ELSE IF Len(a.shows) = 1 THEN 0
    ELSE 1

\* TVMaze.get_series_id_search
GetSeriesIdSearch(a) ==
    IF a.kind = "error" THEN Outcome(TRUE, 0)
    ELSE IF Len(a.shows) = 0 THEN Outcome(FALSE, 0)
    ELSE IF Len(a.shows) = 1 THEN Outcome(FALSE, a.shows[1])
    ELSE Outcome(FALSE, PickSeries(a.shows, a.pick))

\* TVMaze.get_series_id_singlesearch
GetSeriesIdSinglesearch(a) ==
    IF a.kind = "error" THEN Outcome(TRUE, 0)
    ELSE IF a.kind = "ok" THEN Outcome(FALSE, a.id)
    ELSE Outcome(FALSE, 0)

\* a set_series_id that starts the section afresh with the one entry
SetSeriesIdFresh(section, series, id) ==
    [present |-> TRUE, opts |-> [k \in {OptionXForm(series)} |-> IntToStr(id)]]

\* TVMaze.set_series_id
SetSeriesId(section, series, id) == SetOption(AddSection(section), series, IntToStr(id))

\* a resolver that never writes to the cache
CacheNever(section, series, id) == section

\* a resolver that writes whatever the lookup gave, 0 included
CacheAlways(section, series, id) ==
    IF ~HasOption(section, series) THEN SetSeriesId(section, series, id) ELSE section

\* the end of TVMaze.get_series_id: a non-zero id of a name without an option
\* is written to the cache
CacheAfterLookup(section, series, id) ==
    IF id # 0 /\ ~HasOption(section, series) THEN SetSeriesId(section, series, id)
    ELSE section

\* TVMaze.get_series_id(series, interactive) with remote answer a: the cache
\* section after the call and the record of the call
GetSeriesId(c, section, series, interactive, a) ==
    LET lookup == IF HasOption(section, series) THEN "local"
                  ELSE IF interactive THEN "search" ELSE "singlesearch"
        out == IF lookup = "local" THEN GetSeriesIdLocal(c, section, series)
               ELSE IF lookup = "search" THEN GetSeriesIdSearch(a)
               ELSE GetSeriesIdSinglesearch(a)
    IN  [ids |-> IF out.raised THEN section ELSE CacheAfterLookup(section, series, out.id),
         call |-> [series |-> series, interactive |-> interactive, lookup |-> lookup,
                   requests |-> IF lookup = "local" THEN 0 ELSE 1,
                   raised |-> out.raised, id |-> out.id]]

\* answers of /shows/:id/episodebynumber
EpisodeTitle == <<"D">>
EpisodeAnswers == {"error", "notok", "ok"}

\* a get_episode_title that tests the episode number before the season
GetEpisodeTitleEpisodeFirst(id, m, ea) ==
    IF id = 0 THEN [raised |-> "ValueError: No Series ID", title |-> << >>]
    ELSE IF m.episode = 0 THEN [raised |-> "ValueError: No Episode Number", title |-> << >>]
    ELSE IF m.season = 0 THEN [raised |-> "ValueError: No Season", title |-> << >>]
    ELSE IF ea = "error" THEN [raised |-> "RequestException", title |-> << >>]
    ELSE IF ea = "ok" THEN [raised |-> "", title |-> EpisodeTitle]
    ELSE [raised |-> "", title |-> << >>]

\* the episodebynumber requests get_episode_title sends, given the id
EpisodeRequests(id, m) ==
    IF id = 0 THEN 0
    ELSE IF m.season = 0 THEN 0
    ELSE IF m.episode = 0 THEN 0
    ELSE 1

\* TVMaze.get_episode_title after its own get_series_id call gave id
GetEpisodeTitle(id, m, ea) ==
    IF id = 0 THEN [raised |-> "ValueError: No Series ID", title |-> << >>]
    ELSE IF m.season = 0 THEN [raised |-> "ValueError: No Season", title |-> << >>]
    ELSE IF m.episode = 0 THEN [raised |-> "ValueError: No Episode Number", title |-> << >>]
    ELSE IF ea = "error" THEN [raised |-> "RequestException", title |-> << >>]
    ELSE IF ea = "ok" THEN [raised |-> "", title |-> EpisodeTitle]
    ELSE [raised |-> "", title |-> << >>]

\* the lists /shows/:id/seasons answers with: entries with a number and an id
SeasonLists == SeqsUpTo([number : 1..MaxSeasons, id : 1..MaxId], MaxSeasons)

\* a season lookup that keeps scanning and returns the last match
GetSeasonIdLast(list, season) ==
    LET hits == {k \in 1..Len(list) : list[k].number = season}
    IN  IF hits = {} THEN 0 ELSE list[Max(hits)].id

\* the loop of TVMaze.get_season_id from entry k on
RECURSIVE ScanSeasons(_, _, _)
ScanSeasons(list, season, k) ==
    IF k > Len(list) THEN 0
    ELSE IF list[k].number = season THEN list[k].id
    ELSE ScanSeasons(list, season, k + 1)

\* TVMaze.get_season_id(series_id, season) on the season list of the series
GetSeasonId(list, season) == ScanSeasons(list, season, 1)

\* the exception a raising get_series_id call lets through
LookupError(call) ==
    IF call.lookup = "local" THEN "ValueError: invalid literal for int()"
    ELSE "RequestException"

\* a fetch that clears the title before it looks anything up
FetchClearsTitle(c, section, m, a, ea) ==
    LET r1 == GetSeriesId(c, section, m.series, c.interactive, a)
        ids2 == SetSeriesId(r1.ids, m.series, r1.call.id)
        r2 == GetSeriesId(c, ids2, m.series, FALSE, NoAnswer)
        t == GetEpisodeTitle(r2.call.id, m, ea)
    IN  IF r1.call.raised
        THEN [ids |-> r1.ids, calls |-> <<r1.call>>, raised |-> LookupError(r1.call),
              title |-> << >>]
        ELSE IF r1.call.id = 0
        THEN [ids |-> r1.ids, calls |-> <<r1.call>>, raised |-> "ValueError: No Series ID",
              title |-> << >>]
        ELSE IF r2.call.raised
        THEN [ids |-> r2.ids, calls |-> <<r1.call, r2.call>>,
              raised |-> LookupError(r2.call), title |-> << >>]
        ELSE [ids |-> r2.ids, calls |-> <<r1.call, r2.call>>, raised |-> t.raised,
              title |-> IF t.raised = "" THEN t.title ELSE << >>]

\* TVMaze.fetch(media) with the answers a (series) and ea (episode): the cache
\* section, the calls of get_series_id, the exception ("" if none), the title
Fetch(c, section, m, a, ea) ==
    LET r1 == GetSeriesId(c, section, m.series, c.interactive, a)
        ids2 == SetSeriesId(r1.ids, m.series, r1.call.id)
        r2 == GetSeriesId(c, ids2, m.series, FALSE, NoAnswer)
        t == GetEpisodeTitle(r2.call.id, m, ea)
    IN  IF r1.call.raised
        THEN [ids |-> r1.ids, calls |-> <<r1.call>>, raised |-> LookupError(r1.call),
              title |-> m.title]
        ELSE IF r1.call.id = 0
        THEN [ids |-> r1.ids, calls |-> <<r1.call>>, raised |-> "ValueError: No Series ID",
              title |-> m.title]
        ELSE IF r2.call.raised
        THEN [ids |-> r2.ids, calls |-> <<r1.call, r2.call>>,
              raised |-> LookupError(r2.call), title |-> m.title]
        ELSE [ids |-> r2.ids, calls |-> <<r1.call, r2.call>>, raised |-> t.raised,
              title |-> IF t.raised = "" THEN t.title ELSE m.title]

\* the answers the episode request of a fetch call can get: the request is
\* only made when nothing raised before it
EpisodeAnswersFor(c, section, m, a) ==
    IF Fetch(c, section, m, a, "ok").raised = "" THEN EpisodeAnswers ELSE {"ok"}

---------------------------------------------------------------------------
(* The filesystem, Media.rename and Media.organize (nielsen/media.py).     *)
(* A path is [dir, name]; fs maps the paths of regular files to inode      *)
(* numbers.                                                                *)

FsRemove(f, p) == [q \in DOMAIN f \ {p} |-> f[q]]
FsPut(f, p, n) == [q \in DOMAIN f \cup {p} |-> IF q = p THEN n ELSE f[q]]

\* os.rename(src, dst) on a regular file: an existing dst is replaced silently
OsRename(f, src, dst) == IF src = dst THEN f ELSE FsPut(FsRemove(f, src), dst, f[src])

\* Path.mkdir(parents=True, exist_ok=True)
MkdirParents(d, dir) == d \cup {SubSeq(dir, 1, k) : k \in 1..Len(dir)}

\* a rename that moves onto an existing destination
RenameOverwrites(m, c, f) ==
    LET dest == WithStem(m.path, TVStr(m))
    IN  IF m.path \notin DOMAIN f
        THEN [fs |-> f, path |-> m.path, raised |-> "FileNotFoundError", log |-> {}]
        ELSE IF ~c.simulate
        THEN [fs |-> OsRename(f, m.path, dest), path |-> dest, raised |-> "",
              log |-> {"Renaming"}]
        ELSE [fs |-> f, path |-> m.path, raised |-> "", log |-> {"Renaming"}]

\* a rename that does not look at the simulate option
RenameIgnoresSimulate(m, c, f) ==
    LET dest == WithStem(m.path, TVStr(m))
    IN  IF m.path \notin DOMAIN f
        THEN [fs |-> f, path |-> m.path, raised |-> "FileNotFoundError", log |-> {}]
        ELSE IF dest \in DOMAIN f
        THEN [fs |-> f, path |-> m.path, raised |-> "",
              log |-> {"Renaming",
                       IF f[m.path] = f[dest] THEN "File already named correctly."
                       ELSE "FILE_CONFLICT"}]
        ELSE [fs |-> OsRename(f, m.path, dest), path |-> dest, raised |-> "",
              log |-> {"Renaming"}]

\* a rename that moves the file and keeps the path it had
RenameStalePath(m, c, f) ==
    LET dest == WithStem(m.path, TVStr(m))
    IN  IF m.path \notin DOMAIN f
        THEN [fs |-> f, path |-> m.path, raised |-> "FileNotFoundError", log |-> {}]
        ELSE IF dest \in DOMAIN f
        THEN [fs |-> f, path |-> m.path, raised |-> "",
              log |-> {"Renaming",
                       IF f[m.path] = f[dest] THEN "File already named correctly."
                       ELSE "FILE_CONFLICT"}]
        ELSE IF ~c.simulate
        THEN [fs |-> OsRename(f, m.path, dest), path |-> m.path, raised |-> "",
              log |-> {"Renaming"}]
        ELSE [fs |-> f, path |-> m.path, raised |-> "", log |-> {"Renaming"}]

\* Media.rename: m is the Media object, c the switches, f the filesystem
Rename(m, c, f) ==
    LET dest == WithStem(m.path, TVStr(m))
    IN  IF m.path \notin DOMAIN f
        THEN [fs |-> f, path |-> m.path, raised |-> "FileNotFoundError", log |-> {}]
        ELSE IF dest \in DOMAIN f
        THEN [fs |-> f, path |-> m.path, raised |-> "",
              log |-> {"Renaming",
                       IF f[m.path] = f[dest] THEN "File already named correctly."
                       ELSE "FILE_CONFLICT"}]
        ELSE IF ~c.simulate
        THEN [fs |-> OsRename(f, m.path, dest), path |-> dest, raised |-> "",
              log |-> {"Renaming"}]
        ELSE [fs |-> f, path |-> m.path, raised |-> "", log |-> {"Renaming"}]

\* the mode option of the configuration ("644") and the mode files start with
ConfigMode == "644"
FileMode == "600"
FileOwner == "user"

\* shutil.move(src, dst) of a regular file onto a file path: os.rename
ShutilMove(f, src, dst) == OsRename(f, src, dst)

\* Media.organize: d the directories, at the file attributes, denied the call
\* (chmod, chown or none) the system refuses with PermissionError
Organize(m, c, f, d, at, denied) ==
    LET dst == [dir |-> OrgDir(m), name |-> m.path.name]
        d1 == IF Library \in d THEN d ELSE d \cup {Library}
        moved == ~c.simulate
        f2 == IF moved THEN ShutilMove(f, m.path, dst) ELSE f
        d2 == IF moved THEN MkdirParents(d1, OrgDir(m)) ELSE d1
        p2 == IF moved THEN dst ELSE m.path
        at1 == [at EXCEPT ![f2[p2]].mode = ConfigMode]
        at2 == [at1 EXCEPT ![f2[p2]].owner = c.owner]
    IN  IF m.path \notin DOMAIN f
        THEN [fs |-> f, dirs |-> d, attrs |-> at, path |-> m.path,
              raised |-> "TypeError", log |-> {"Path attribute does not point to a regular file"}]
        ELSE IF denied = "chmod"
        THEN [fs |-> f2, dirs |-> d2, attrs |-> at, path |-> p2,
              raised |-> "PermissionError", log |-> {"Move"}]
        ELSE IF c.owner = ""
        THEN [fs |-> f2, dirs |-> d2, attrs |-> at1, path |-> p2, raised |-> "",
              log |-> {"Move"}]
        ELSE IF denied = "chown"
        THEN [fs |-> f2, dirs |-> d2, attrs |-> at1, path |-> p2,
              raised |-> "PermissionError", log |-> {"Move"}]
        ELSE [fs |-> f2, dirs |-> d2, attrs |-> at2, path |-> p2, raised |-> "",
              log |-> {"Move"}]

---------------------------------------------------------------------------
(* The state machine: the CLI "process" command (nielsen/bin/cli/main.py)  *)
(* running Processor.process (nielsen/processor.py) on each file, and the  *)
(* resolver called on its own ("tv fetch", "tv apply").                    *)

F1 == [dir |-> Inbox, name |-> <<"a","b",".","s","0","1","e","0","2",".","c",".","x">>]
F2 == [dir |-> Inbox, name |-> <<"A","b"," ","-","0","1",".","0","2","-"," ","C",".","x">>]
F3 == [dir |-> Inbox, name |-> <<"n",".","x">>]

NoPath == [dir |-> << >>, name |-> << >>]
NoMedia == [path |-> NoPath, series |-> << >>, season |-> 0, episode |-> 0, title |-> << >>]

\* the run-time switches: tv/fetch, tv/rename, tv/organize, nielsen/simulate,
\* nielsen/interactive, tv/owner.  The configurations explored: a dry run, an
\* owner and a non-interactive lookup are each tried on their own.
Configs ==
    {c \in [fetch : BOOLEAN, rename : BOOLEAN, organize : BOOLEAN, simulate : BOOLEAN,
            interactive : BOOLEAN, owner : {"", "nielsen"}] :
        /\ (~c.interactive => c.fetch /\ ~c.rename /\ ~c.organize)
        /\ (c.simulate => ~c.fetch /\ (c.rename \/ c.organize))
        /\ (c.owner # "" => c.organize /\ ~c.rename /\ ~c.fetch /\ ~c.simulate)}

\* a processor that runs every stage whatever the flags say
StageAlways(c, stage) == TRUE

\* config.getboolean(media.section, stage) in Processor.process
StageEnabled(c, stage) ==
    IF stage = "fetch" THEN c.fetch
    ELSE IF stage = "rename" THEN c.rename
    ELSE c.organize

NoSection == [present |-> FALSE, opts |-> NoOpts]
AliasSection == [present |-> TRUE,
                 opts |-> [k \in {<<"a","b">>} |-> <<"B","A">>]]
CachedSection == [present |-> TRUE, opts |-> [k \in {<<"a","b">>} |-> <<"1">>]]

NoReturned == [n \in {} |-> 0]
InitialFs == [p \in {F1, F2, F3} |-> IF p = F1 THEN 1 ELSE IF p = F2 THEN 2 ELSE 3]
InitialAttrs == [n \in {InitialFs[p] : p \in DOMAIN InitialFs} |->
                    [mode |-> FileMode, owner |-> FileOwner]]
\* no function has been called on its own
NoCall == [name |-> ""]

IdleCli == [files |-> << >>, i |-> 0, status |-> "idle", before |-> 0]

Init ==
    /\ cfg \in Configs
    /\ alias \in IF cfg.fetch THEN {NoSection} ELSE {NoSection, AliasSection}
    /\ dirs \in IF cfg.fetch THEN {{Inbox, Library}} ELSE {{Inbox, Library}, {Inbox}}
    /\ ids = NoSection
    /\ calls = << >>
    /\ returned = NoReturned
    /\ fs = InitialFs
    /\ attrs = InitialAttrs
    /\ cli = IdleCli
    /\ pc = "idle"
    /\ media = NoMedia
    /\ stages = << >>
    /\ log = {}
    /\ err = ""
    /\ done = {}
    /\ fn = NoCall
    /\ res = NoCall

\* the non-zero ids the calls cs (all of one series) returned, noted in ret
NoteReturned(ret, cs) ==
    LET good == {k \in 1..Len(cs) : ~cs[k].raised /\ cs[k].id # 0}
    IN  IF good = {} THEN ret
        ELSE [n \in DOMAIN ret \cup {cs[Max(good)].series} |->
                IF n = cs[Max(good)].series THEN cs[Max(good)].id ELSE ret[n]]

\* the process command starts on the files of its command line
CliProcess ==
    /\ cli.status # "running"
    /\ cli.before + Len(cli.files) < MaxFiles
    /\ \E files \in SeqsUpTo(DOMAIN fs, MaxFiles - cli.before - Len(cli.files)) \ {<< >>} :
          cli' = [files |-> files, i |-> 1, status |-> "running",
                  before |-> cli.before + Len(cli.files)]
    /\ pc' = "new"
    /\ UNCHANGED <<ids, calls, returned, fs, dirs, attrs, cfg, alias, media, stages,
                   log, err, done, fn, res>>

\* Processor.process: the Media object is built (its library must be a
\* directory) and media.infer() runs
Infer ==
    /\ pc = "new"
    /\ IF Library \notin dirs
       THEN /\ pc' = "raised"
            /\ err' = "TypeError"
            /\ media' = NoMedia
            /\ stages' = << >>
            /\ log' = {"Media.library must be a directory"}
       ELSE \E g \in {MatchName(cli.files[cli.i].name)} :
            \E md \in {SetMetadata(cfg, alias, g)} :
               /\ pc' = "fetch"
               /\ err' = ""
               /\ media' = [path |-> cli.files[cli.i], series |-> md.series,
                            season |-> md.season, episode |-> md.episode,
                            title |-> md.title]
               /\ stages' = <<"infer">>
               /\ log' = IF g.ok THEN {} ELSE {"NO_MATCH"}
    /\ calls' = << >>
    /\ UNCHANGED <<ids, returned, fs, dirs, attrs, cfg, alias, cli, done, fn, res>>

\* Processor.process: if tv/fetch, fetcher.fetch(media)
FetchStage ==
    /\ pc = "fetch"
    /\ IF ~StageEnabled(cfg, "fetch")
       THEN /\ pc' = "rename"
            /\ UNCHANGED <<ids, calls, returned, media, stages, err>>
       ELSE \E a \in AnswersFor(ids, media.series, cfg.interactive) :
            \E ea \in EpisodeAnswersFor(cfg, ids, media, a) :
               \E r \in {Fetch(cfg, ids, media, a, ea)} :
                   /\ ids' = r.ids
                   /\ calls' = r.calls
                   /\ returned' = NoteReturned(returned, r.calls)
                   /\ media' = [media EXCEPT !.title = r.title]
                   /\ stages' = Append(stages, "fetch")
                   /\ err' = r.raised
                   /\ pc' = IF r.raised = "" THEN "rename" ELSE "raised"
    /\ UNCHANGED <<fs, dirs, attrs, cfg, alias, cli, log, done, fn, res>>

\* Processor.process: if tv/rename, media.rename()
RenameStage ==
    /\ pc = "rename"
    /\ IF ~StageEnabled(cfg, "rename")
       THEN /\ pc' = "organize"
            /\ UNCHANGED <<fs, media, stages, log, err>>
       ELSE \E r \in {Rename(media, cfg, fs)} :
                /\ fs' = r.fs
                /\ media' = [media EXCEPT !.path = r.path]
                /\ stages' = Append(stages, "rename")
                /\ log' = log \cup r.log
                /\ err' = r.raised
                /\ pc' = IF r.raised = "" THEN "organize" ELSE "raised"
    /\ UNCHANGED <<ids, calls, returned, dirs, attrs, cfg, alias, cli, done, fn, res>>

\* Processor.process: if tv/organize, media.organize()
OrganizeStage ==
    /\ pc = "organize"
    /\ IF ~StageEnabled(cfg, "organize")
       THEN /\ pc' = "return"
            /\ UNCHANGED <<fs, dirs, attrs, media, stages, log, err>>
       ELSE \E denied \in {"none", "chmod"} \cup (IF cfg.owner = "" THEN {} ELSE {"chown"}) :
               \E r \in {Organize(media, cfg, fs, dirs, attrs, denied)} :
                   /\ fs' = r.fs
                   /\ dirs' = r.dirs
                   /\ attrs' = r.attrs
                   /\ media' = [media EXCEPT !.path = r.path]
                   /\ stages' = Append(stages, "organize")
                   /\ log' = log \cup r.log
                   /\ err' = r.raised
                   /\ pc' = IF r.raised = "" THEN "return" ELSE "raised"
    /\ UNCHANGED <<ids, calls, returned, cfg, alias, cli, done, fn, res>>

\* the rename stage of the current process call gave the file its computed name
\* (or found it there already)
RenamedNow ==
    /\ \E k \in 1..Len(stages) : stages[k] = "rename"
    /\ ~cfg.simulate
    /\ "FILE_CONFLICT" \notin log

\* Processor.process returns the media; the for loop of the process command
\* goes on to the next file, or the command ends
Return ==
    /\ pc = "return"
    /\ done' = IF RenamedNow THEN done \cup {media.path} ELSE done
    /\ IF cli.i < Len(cli.files)
       THEN /\ cli' = [cli EXCEPT !.i = cli.i + 1]
            /\ pc' = "new"
       ELSE /\ cli' = [cli EXCEPT !.status = "finished"]
            /\ pc' = "idle"
    /\ UNCHANGED <<ids, calls, returned, fs, dirs, attrs, cfg, alias, media, stages,
                   log, err, fn, res>>

\* an exception leaves Processor.process and the for loop, which has no handler:
\* the command ends
Raise ==
    /\ pc = "raised"
    /\ cli' = [cli EXCEPT !.status = "aborted"]
    /\ pc' = "idle"
    /\ UNCHANGED <<ids, calls, returned, fs, dirs, attrs, cfg, alias, media, stages,
                   log, err, done, fn, res>>

Next == CliProcess \/ Infer \/ FetchStage \/ RenameStage \/ OrganizeStage \/ Return \/ Raise

Spec == Init /\ [][Next]_vars

---------------------------------------------------------------------------
(* The resolver on its own: get_series_id and fetch called for a series    *)
(* name, as the "tv" commands and the tests do.                            *)

SeriesNames == {<<"A","b">>, <<"a","b">>, <<"M","o","d","e">>}

InitResolver ==
    /\ cfg \in {c \in Configs : c.fetch /\ ~c.rename /\ ~c.organize}
    /\ alias = NoSection
    /\ dirs = {Inbox, Library}
    /\ ids \in {NoSection, CachedSection}
    /\ calls = << >>
    /\ returned = NoReturned
    /\ fs = InitialFs
    /\ attrs = InitialAttrs
    /\ cli = IdleCli
    /\ pc = "idle"
    /\ media = NoMedia
    /\ stages = << >>
    /\ log = {}
    /\ err = ""
    /\ done = {}
    /\ fn = NoCall
    /\ res = NoCall

\* a TV object of series n, first episode of the first season, no title yet
TVOf(n) == [path |-> NoPath, series |-> n, season |-> 1, episode |-> 1, title |-> << >>]

\* one call TVMaze.get_series_id(n, interactive)
ApiGetSeriesId ==
    /\ \E n \in SeriesNames, i \in BOOLEAN :
         \E a \in AnswersFor(ids, n, i) :
            \E r \in {GetSeriesId(cfg, ids, n, i, a)} :
                /\ ids' = r.ids
                /\ calls' = <<r.call>>
                /\ returned' = NoteReturned(returned, <<r.call>>)
                /\ err' = IF r.call.raised THEN LookupError(r.call) ELSE ""
    /\ UNCHANGED <<fs, dirs, attrs, cfg, alias, cli, pc, media, stages, log, done, fn, res>>

\* one call TVMaze.fetch(media) on a TV object of series n
ApiFetch ==
    /\ \E n \in SeriesNames :
         \E a \in AnswersFor(ids, n, cfg.interactive) :
         \E ea \in EpisodeAnswersFor(cfg, ids, TVOf(n), a) :
            \E r \in {Fetch(cfg, ids, TVOf(n), a, ea)} :
                /\ ids' = r.ids
                /\ calls' = r.calls
                /\ returned' = NoteReturned(returned, r.calls)
                /\ media' = [TVOf(n) EXCEPT !.title = r.title]
                /\ err' = r.raised
    /\ UNCHANGED <<fs, dirs, attrs, cfg, alias, cli, pc, stages, log, done, fn, res>>

NextResolver == ApiGetSeriesId \/ ApiFetch

SpecResolver == InitResolver /\ [][NextResolver]_vars

---------------------------------------------------------------------------
(* get_file_info of the first API (nielsen/api.py): what it does to the    *)
(* episode and the title once a pattern has matched.                       *)

\* re.sub(r"(1080p|720p|HDTV|WEB|PROPER|REPACK|RERIP).*", "", t), ignoring case
StripTagsApi(t) ==
    LET cut == {i \in 1..Len(t) : TagAt(t, i)}
    IN  IF cut = {} THEN t ELSE Sub(t, 1, Min(cut) - 1)

\* str.islower(): a cased character, and no upper-case one
StrIsLower(t) ==
    /\ \E i \in 1..Len(t) : IsLower(t[i])
    /\ \A i \in 1..Len(t) : ~IsUpper(t[i])

\* t[a:b] for 0 <= a <= b
PySlice(t, a, b) == Sub(t, a + 1, Min({b, Len(t)}))

\* str.isnumeric() on decimal digits
IsNumeric(t) == t # << >> /\ AllDigits(t, 1, Len(t))

\* the title after tag stripping, title case and the fetch of a missing title
FileInfoTitle(title, fetchtitles, fetched) ==
    LET t == StrStrip(StripTagsApi(title))
    IN  IF StrIsLower(t) THEN StrTitle(t)
        ELSE IF t = << >> /\ fetchtitles THEN fetched
        ELSE t

\* a detection that merges every marker, whatever its number
DoubleEpisodeAny(episode, title) ==
    IF /\ title # << >>
       /\ LowerChar(title[1]) = "e"
       /\ IsNumeric(PySlice(title, 1, 3))
    THEN [episode |-> episode \o <<"-">> \o PySlice(title, 1, 3),
          title |-> StrStrip(PySlice(title, 3, Len(title)))]
    ELSE [episode |-> episode, title |-> title]

\* the check for double episode files
DoubleEpisode(episode, title) ==
    IF /\ title # << >>
       /\ LowerChar(title[1]) = "e"
       /\ IsNumeric(PySlice(title, 1, 3))
       /\ StrToInt(PySlice(title, 1, 3)) = StrToInt(episode) + 1
    THEN [episode |-> episode \o <<"-">> \o PySlice(title, 1, 3),
          title |-> StrStrip(PySlice(title, 3, Len(title)))]
    ELSE [episode |-> episode, title |-> title]

---------------------------------------------------------------------------
(* The configuration file (nielsen/config.py).  A configuration, in memory *)
(* or in a file, maps <<section, option>> to a value; a file holds the     *)
(* options written in it, the memory also those of the default section.    *)

\* the default section as config.py sets it, as far as the process command
\* overrides it
ConfigDefaults ==
    [k \in {<<"nielsen", "simulate">>, <<"nielsen", "fetch">>,
            <<"nielsen", "organize">>, <<"nielsen", "rename">>} |->
        BoolStr(k[2] # "simulate")]

\* the options a file may hold, and the files: any of them, with any value
FileKeys == {<<"tv", "fetch">>, <<"nielsen", "simulate">>}
ConfigFiles ==
    UNION {[S -> {BoolStr(TRUE), BoolStr(FALSE)}] : S \in SUBSET FileKeys}

\* config.read(file): the options of the file replace or join those in memory
ConfigRead(mem, file) ==
    [k \in DOMAIN mem \cup DOMAIN file |-> IF k \in DOMAIN file THEN file[k] ELSE mem[k]]

\* config.set(section, option, value)
ConfigSet(mem, k, v) ==
    [j \in DOMAIN mem \cup {k} |-> IF j = k THEN v ELSE mem[j]]

\* config.get(section, option): the section's own option, else the default's
ConfigGet(mem, k) == IF k \in DOMAIN mem THEN mem[k] ELSE mem[<<"nielsen", k[2]>>]

\* the process command writes its four flags to the configuration in memory
ProcessOverrides(mem, fetch, organize, rename, simulate) ==
    ConfigSet(ConfigSet(ConfigSet(ConfigSet(mem,
        <<"tv", "fetch">>, BoolStr(fetch)),
        <<"tv", "organize">>, BoolStr(organize)),
        <<"tv", "rename">>, BoolStr(rename)),
        <<"nielsen", "simulate">>, BoolStr(simulate))

\* write_config(path): the file gets every option in memory
WriteConfig(mem) == mem

\* update_config(path): load_config(path), then write_config(path)
UpdateConfig(mem, file) == WriteConfig(ConfigRead(mem, file))

---------------------------------------------------------------------------
(* The functions called on their own, as the unit tests call them: fn is   *)
(* the call and its arguments, res what it has computed.                   *)

\* the variables of the process command, which these calls leave alone
pipeline == <<calls, returned, fs, dirs, attrs, cli, pc, media, stages, log, err, done>>

\* the configurations the calls run under: a dry run or not
CallConfigs ==
    {c \in Configs : c.interactive /\ c.rename /\ ~c.organize /\ ~c.fetch /\ c.owner = ""}

InitCalls ==
    /\ cfg \in {c \in CallConfigs : ~c.simulate}
    /\ alias = NoSection
    /\ dirs = {Inbox, Library}
    /\ ids \in {NoSection, CachedSection}
    /\ calls = << >>
    /\ returned = NoReturned
    /\ fs = InitialFs
    /\ attrs = InitialAttrs
    /\ cli = IdleCli
    /\ pc = "idle"
    /\ media = NoMedia
    /\ stages = << >>
    /\ log = {}
    /\ err = ""
    /\ done = {}
    /\ fn = NoCall
    /\ res = NoCall

\* one call TVMaze.get_series_id_search(series) whose request is answered by a
CallGetSeriesIdSearch ==
    /\ fn = NoCall
    /\ \E a \in {x \in SearchAnswers : x.kind = "error" \/ x.pick <= Max({1, Len(x.shows)})} :
         \E r \in {GetSeriesIdSearch(a)} :
            /\ fn' = [name |-> "get_series_id_search", answer |-> a]
            /\ res' = [raised |-> r.raised, id |-> r.id, picker |-> PickerCalls(a)]
    /\ UNCHANGED <<pipeline, cfg, alias, ids>>

\* The catalog as the environment of a lookup: the shows it holds for the
\* name, best match first, and how the request fares: answered as documented
\* ("up"), no connection ("transport"), a body that is no JSON ("not json"),
\* a 4xx/5xx status with a JSON error body ("http error"), or a 200 whose
\* object lacks the id ("no id")
CatalogHealth == {"up", "transport", "not json", "http error", "no id"}
CatalogShows ==
    {q \in SeqsUpTo(1..MaxId, MaxResults) : \A i, j \in 1..Len(q) : i # j => q[i] # q[j]}

\* what requests.get and response.json() give get_series_id_search: a list
\* when the catalog is up; otherwise json() raises or the body is an error
\* object, on which the indexing rjson[0] / results[selection] raises
SearchResponse(shows, pick, health) ==
    IF health = "up" THEN Answer("results", shows, pick, 0) ELSE RequestError

\* what requests.get and response.json() give get_series_id_singlesearch:
\* the best match with status 200, or status 404 when nothing matches
SingleResponse(shows, health) ==
    IF health \in {"transport", "not json"} THEN RequestError
    ELSE IF health = "http error" THEN Answer("notok", << >>, 1, 0)
    ELSE IF health = "no id" THEN Answer("ok", << >>, 1, 0)
    ELSE IF shows = << >> THEN Answer("notok", << >>, 1, 0)
    ELSE Answer("ok", << >>, 1, shows[1])

\* the answer the lookup of a get_series_id call consumes
CatalogAnswer(section, series, interactive, shows, pick, health) ==
    IF HasOption(section, series) THEN NoAnswer
    ELSE IF interactive THEN SearchResponse(shows, pick, health)
    ELSE SingleResponse(shows, health)

\* one call TVMaze.get_series_id(n, i) against a catalog
CallGetSeriesId ==
    /\ fn = NoCall
    /\ \E n \in SeriesNames, i \in BOOLEAN, shows \in CatalogShows, health \in CatalogHealth :
         \E pick \in 1..(IF i THEN Max({1, Len(shows)}) ELSE 1) :
         \E r \in {GetSeriesId(cfg, ids, n, i,
                                CatalogAnswer(ids, n, i, shows, pick, health))} :
            /\ ids' = r.ids
            /\ fn' = [name |-> "get_series_id", series |-> n, interactive |-> i,
                      shows |-> shows, pick |-> pick, health |-> health,
                      cached |-> HasOption(ids, n)]
            /\ res' = [raised |-> r.call.raised, id |-> r.call.id,
                       lookup |-> r.call.lookup]
    /\ UNCHANGED <<pipeline, cfg, alias>>

\* the result lists pick_series is called with: at least one show, none twice
PickerResults ==
    {q \in SeqsUpTo(1..MaxId, MaxResults) :
        Len(q) >= 1 /\ \A i, j \in 1..Len(q) : i # j => q[i] # q[j]}

\* TVMaze.pick_series(query, results) is called: the list is printed and the
\* selection starts invalid
CallPickSeries ==
    /\ fn = NoCall
    /\ \E results \in PickerResults :
         /\ fn' = [name |-> "pick_series", results |-> results]
         /\ res' = [status |-> "loop", selection |-> 0 - 1, inputs |-> << >>,
                    raised |-> "", item |-> 0]
    /\ UNCHANGED <<pipeline, cfg, alias, ids>>

\* one turn of the loop: the user types the integer k
PickSeriesInput ==
    /\ fn.name = "pick_series"
    /\ res.status = "loop"
    /\ PromptAgain(res.selection, Len(fn.results))
    /\ Len(res.inputs) < MaxPrompts
    /\ \E k \in (0 - 1)..(Len(fn.results) + 1) :
         res' = [res EXCEPT !.selection = k - 1, !.inputs = Append(@, k)]
    /\ UNCHANGED <<pipeline, cfg, alias, ids, fn>>

\* the loop ends: return results[selection]
PickSeriesReturn ==
    /\ fn.name = "pick_series"
    /\ res.status = "loop"
    /\ ~PromptAgain(res.selection, Len(fn.results))
    /\ \E r \in {PyIndex(fn.results, res.selection)} :
         res' = [res EXCEPT !.status = IF r.raised = "" THEN "returned" ELSE "raised",
                            !.raised = r.raised, !.item = r.item]
    /\ UNCHANGED <<pipeline, cfg, alias, ids, fn>>

\* one call TVMaze.get_episode_title(media) for a TV object of series n: its
\* own get_series_id(n) call (not interactive), the three tests, the request
CallGetEpisodeTitle ==
    /\ fn = NoCall
    /\ \E n \in SeriesNames, season \in {0, 1}, episode \in {0, 1},
          shows \in CatalogShows, health \in CatalogHealth :
         \E r \in {GetSeriesId(cfg, ids, n, FALSE,
                                CatalogAnswer(ids, n, FALSE, shows, 1, health))} :
         \E m \in {[TVOf(n) EXCEPT !.season = season, !.episode = episode]} :
         \E ea \in IF ~r.call.raised /\ EpisodeRequests(r.call.id, m) = 1
                    THEN EpisodeAnswers ELSE {"ok"} :
         \E t \in {GetEpisodeTitle(r.call.id, m, ea)} :
            /\ ids' = r.ids
            /\ fn' = [name |-> "get_episode_title", series |-> n, season |-> season,
                      episode |-> episode, shows |-> shows, health |-> health,
                      answer |-> ea]
            /\ res' = [resolved |-> Outcome(r.call.raised, r.call.id),
                       raised |-> IF r.call.raised THEN LookupError(r.call) ELSE t.raised,
                       title |-> IF r.call.raised THEN << >> ELSE t.title,
                       requests |-> IF r.call.raised THEN 0
                                    ELSE EpisodeRequests(r.call.id, m)]
    /\ UNCHANGED <<pipeline, cfg, alias>>

\* one call TVMaze.get_season_id(series_id, season); the request can fail
CallGetSeasonId ==
    /\ fn = NoCall
    /\ \E list \in SeasonLists, season \in 1..MaxSeasons, health \in {"up", "transport"} :
         /\ fn' = [name |-> "get_season_id", list |-> list, season |-> season,
                   health |-> health]
         /\ res' = IF health = "up"
                    THEN [raised |-> "", id |-> GetSeasonId(list, season)]
                    ELSE [raised |-> "RequestException", id |-> 0]
    /\ UNCHANGED <<pipeline, cfg, alias, ids>>

\* the series values transform is called with: the names of the resolver, a
\* name no section knows, and the name of the option the dry run sets
TransformNames ==
    SeriesNames \cup {<<"X","y">>, <<"S","i","m","u","l","a","t","e">>}

\* one call Media.transform("series") on a TV object whose series is n, with
\* the tv/transform/series section and the switches of the run
CallTransform ==
    /\ fn = NoCall
    /\ \E n \in TransformNames, section \in {NoSection, AliasSection}, c \in CallConfigs :
         /\ fn' = [name |-> "transform", series |-> n, section |-> section,
                   simulate |-> c.simulate]
         /\ res' = [value |-> Transform(c, section, n)]
    /\ UNCHANGED <<pipeline, cfg, alias, ids>>

\* the TV objects that are compared: two files, two seasons of two episodes,
\* with or without a title
TVObjects ==
    [path : {F1, F2}, series : {<<"A","b">>}, series_id : {0}, season : {1, 2},
     episode : {1, 2}, title : {<< >>, <<"C">>}]

\* one evaluation of a < b and a == b for two TV objects
CallCompare ==
    /\ fn = NoCall
    /\ \E a \in TVObjects, b \in TVObjects :
         /\ fn' = [name |-> "compare", a |-> a, b |-> b]
         /\ res' = [lt |-> TVLess(a, b), eq |-> TVEq(a, b)]
    /\ UNCHANGED <<pipeline, cfg, alias, ids>>

\* the episode and title groups get_file_info works on, dots replaced
FileInfoEpisodes == {<<"0","1">>, <<"0","2">>, <<"1","8">>}
FileInfoTitles ==
    { << >>, <<"A","b">>, <<"E","0","2">>, <<"E","0","2"," ","7","2","0","p">>,
      <<"E","0","2"," ","A","b">>, <<"E","1","9"," ","A","b">>,
      <<"e","0","2"," ","a","b">>, <<"E","2">>, <<"E","0","3">> }

\* get_file_info from the tag stripping on, for a matched episode and title
CallGetFileInfo ==
    /\ fn = NoCall
    /\ \E episode \in FileInfoEpisodes, title \in FileInfoTitles, fetchtitles \in BOOLEAN :
         \E r \in {DoubleEpisode(episode, FileInfoTitle(title, fetchtitles, EpisodeTitle))} :
            /\ fn' = [name |-> "get_file_info", episode |-> episode, title |-> title,
                      fetchtitles |-> fetchtitles]
            /\ res' = [stripped |-> StrStrip(StripTagsApi(title)),
                       episode |-> r.episode, title |-> r.title]
    /\ UNCHANGED <<pipeline, cfg, alias, ids>>

\* one run of the process command as far as the configuration goes: the file
\* is loaded over the defaults, the flags are written to memory, a series id
\* may be cached, and update_config(path) writes the file
CallUpdateConfig ==
    /\ fn = NoCall
    /\ \E file \in ConfigFiles, fetch \in BOOLEAN, organize \in BOOLEAN,
          rename \in BOOLEAN, simulate \in BOOLEAN, cached \in BOOLEAN :
         \E loaded \in {ConfigRead(ConfigDefaults, file)} :
         \E run \in {ProcessOverrides(loaded, fetch, organize, rename, simulate)} :
         \E mem \in {IF cached THEN ConfigSet(run, <<"tvmaze/ids", "ab">>, <<"1">>)
                      ELSE run} :
            /\ fn' = [name |-> "update_config", file |-> file, loaded |-> loaded,
                      memory |-> mem]
            /\ res' = [file |-> UpdateConfig(mem, file)]
    /\ UNCHANGED <<pipeline, cfg, alias, ids>>

\* files.move(src, dst): when dst exists or is src the message "already in
\* MediaPath. File will not be moved." is logged, and the function goes on
\* to shutil.move(src, dst) in either case
FilesMove(f, src, dst) ==
    [fs |-> ShutilMove(f, src, dst),
     log |-> IF dst \in DOMAIN f \/ src = dst THEN <<"not moved", "moving">>
             ELSE <<"moving">>]

\* the paths files.move is called with: the three files and a free path
MovePaths == {F1, F2, F3, [dir |-> Library, name |-> F3.name]}

\* files.move called on an existing file, any of the paths as destination
CallFilesMove ==
    /\ fn = NoCall
    /\ \E S \in SUBSET DOMAIN InitialFs : \E src \in S, dst \in MovePaths :
         \E f \in {[p \in S |-> InitialFs[p]]} :
            /\ fn' = [name |-> "move", fs |-> f, src |-> src, dst |-> dst]
            /\ res' = FilesMove(f, src, dst)
    /\ UNCHANGED <<pipeline, cfg, alias, ids>>

\* the call is over (it returned or raised): the caller goes on
CallReturn ==
    /\ fn # NoCall
    /\ fn.name = "pick_series" => res.status # "loop"
    /\ fn' = NoCall
    /\ res' = NoCall
    /\ UNCHANGED <<pipeline, cfg, alias, ids>>

NextCalls ==
    \/ CallGetSeriesIdSearch
    \/ CallPickSeries
    \/ PickSeriesInput
    \/ PickSeriesReturn
    \/ CallGetSeriesId
    \/ CallGetEpisodeTitle
    \/ CallGetSeasonId
    \/ CallTransform
    \/ CallCompare
    \/ CallGetFileInfo
    \/ CallUpdateConfig
    \/ CallFilesMove
    \/ CallReturn

SpecCalls == InitCalls /\ [][NextCalls]_vars

---------------------------------------------------------------------------
(* Properties of the resolver, checked under SpecResolver, where every     *)
(* step is one call and calls' holds the get_series_id calls of that step. *)

Mode == <<"M","o","d","e">>
RemoteZero(c) == c.lookup # "local" /\ ~c.raised /\ c.id = 0

\* C1: once get_series_id(n, .) has returned a non-zero id, every later call
\* for the identical string n, with either value of interactive, takes the
\* local path, issues no HTTP request and returns the same id.
C1_CacheHit ==
    [][\A k \in 1..Len(calls') :
          LET before == NoteReturned(returned, SubSeq(calls', 1, k - 1))
              c == calls'[k]
          IN  c.series \in DOMAIN before =>
                 /\ c.lookup = "local"
                 /\ c.requests = 0
                 /\ ~c.raised
                 /\ c.id = before[c.series]]_vars

\* a local call for "Mode" that returns 2: the id an earlier remote lookup of
\* that name returned
C1_Witness ==
    /\ Len(calls) = 1
    /\ calls[1].series = Mode
    /\ calls[1].lookup = "local"
    /\ calls[1].requests = 0
    /\ calls[1].id = 2
    /\ Mode \in DOMAIN returned
    /\ returned[Mode] = 2

---------------------------------------------------------------------------
(* Properties of Processor.process and of the process command, checked     *)
(* under Spec.                                                             *)

IsPrefix(p, q) == Len(p) <= Len(q) /\ p = SubSeq(q, 1, Len(p))
Flagged(flag, stage) == IF flag THEN <<stage>> ELSE << >>
ExpectedStages ==
    <<"infer">> \o Flagged(cfg.fetch, "fetch") \o Flagged(cfg.rename, "rename")
                \o Flagged(cfg.organize, "organize")
\* the stages a call has behind it when it stands before the stage at
StagesBefore(at) ==
    <<"infer">>
    \o (IF at \in {"rename", "organize"} THEN Flagged(cfg.fetch, "fetch") ELSE << >>)
    \o (IF at = "organize" THEN Flagged(cfg.rename, "rename") ELSE << >>)
Ended == pc \in {"return", "raised"}
Started == cli.files[cli.i]
LastStage == IF stages = << >> THEN "" ELSE stages[Len(stages)]
RenameDest == WithStem(media.path, TVStr(media))
OrganizeDest == [dir |-> OrgDir(media), name |-> media.path.name]

\* C3 as written: when a process call ends, the stages that ran are infer
\* and exactly those of fetch, rename, organize whose flag is true, in order.
C3_AsWritten == Ended => stages = ExpectedStages

\* C3: the stages run in the order infer, fetch, rename, organize, each at
\* most once and only if its flag is true; a flagged stage runs when no
\* earlier step of the call raised, and a call that returns has run infer
\* and every flagged stage exactly once.
C3_Stages ==
    /\ IsPrefix(stages, ExpectedStages)
    /\ (pc \in {"fetch", "rename", "organize"} => err = "" /\ stages = StagesBefore(pc))
    /\ (pc = "return" => err = "" /\ stages = ExpectedStages)
    /\ (pc = "raised" => err # "")

\* a call with all three flags true has returned
C3_Witness ==
    /\ pc = "return"
    /\ cfg.fetch /\ cfg.rename /\ cfg.organize
    /\ stages = <<"infer", "fetch", "rename", "organize">>

\* C4: a file whose name matches no pattern is left untouched by process
\* (not renamed, not moved, mode and owner unchanged) and the call raises
\* nothing, whatever the flags.  Stated for the first file processed.
C4_NoMatchUntouched ==
    (Ended /\ cli.before = 0 /\ cli.i = 1 /\ "NO_MATCH" \in log) =>
        /\ pc = "return"
        /\ media.path = Started
        /\ fs = InitialFs
        /\ attrs = InitialAttrs

\* C5: a failure while one file is processed (fetch, rename or organize
\* raising) does not stop the batch: the command gets to every file of its
\* argument list.  A library that is no directory is a configuration error.
C5_BatchContinues ==
    (cli.status = "aborted" /\ err # "TypeError") => cli.i = Len(cli.files)

\* C6: rename never overwrites: when the destination exists, no file is
\* renamed, replaced or modified and media.path stays the original path;
\* the same file is "already named correctly", a different one a
\* FILE_CONFLICT.
C6_RenameNeverOverwrites ==
    [][(/\ pc = "rename"
        /\ cfg.rename
        /\ media.path \in DOMAIN fs
        /\ RenameDest \in DOMAIN fs)
       => /\ fs' = fs
          /\ attrs' = attrs
          /\ media'.path = media.path
          /\ IF fs[RenameDest] = fs[media.path]
             THEN /\ "File already named correctly." \in log'
                  /\ "FILE_CONFLICT" \notin log'
                  /\ pc' = "organize"
             ELSE "FILE_CONFLICT" \in log']_vars

\* rename has met a different file under the destination name
C6_Witness ==
    /\ pc = "organize"
    /\ LastStage = "rename"
    /\ "FILE_CONFLICT" \in log
    /\ media.path = Started
    /\ RenameDest \in DOMAIN fs
    /\ fs[RenameDest] # fs[media.path]

\* C7: processing is idempotent: process run again on a file an earlier call
\* has renamed (and organized), with the configuration unchanged, renames
\* nothing, moves the file nowhere else, raises nothing and finds the file
\* already correctly named.  Stated without fetch and without a refusal of
\* the system, which the remote service and the system decide.
C7_Idempotent ==
    (Ended /\ Started \in done /\ ~cfg.fetch /\ err # "PermissionError") =>
        /\ pc = "return"
        /\ media.path = Started
        /\ (cfg.rename => "File already named correctly." \in log)

\* C8: with simulate, rename changes nothing on disk and media.path stays the
\* original path; without simulate and with a free destination the file is
\* moved to the destination and media.path becomes the destination.
C8_RenameSimulate ==
    [][(pc = "rename" /\ cfg.rename /\ media.path \in DOMAIN fs)
       => /\ cfg.simulate => (fs' = fs /\ attrs' = attrs /\ media'.path = media.path)
          /\ (~cfg.simulate /\ RenameDest \notin DOMAIN fs)
             => /\ media'.path = RenameDest
                /\ DOMAIN fs' = (DOMAIN fs \ {media.path}) \cup {RenameDest}
                /\ fs'[RenameDest] = fs[media.path]
                /\ \A q \in DOMAIN fs \ {media.path} : fs'[q] = fs[q]]_vars

\* a simulated rename towards a free destination has run
C8_Witness ==
    /\ cfg.simulate
    /\ pc = "organize"
    /\ LastStage = "rename"
    /\ "Renaming" \in log
    /\ media.path = Started
    /\ media.path \in DOMAIN fs
    /\ RenameDest \notin DOMAIN fs
    /\ RenameDest # media.path

\* C9: organize never overwrites: when another file of the same name is
\* already in the destination directory, organize does not move the source
\* onto it; the file there keeps its content and the source stays.
C9_OrganizeNeverOverwrites ==
    [][(/\ pc = "organize"
        /\ cfg.organize
        /\ media.path \in DOMAIN fs
        /\ OrganizeDest \in DOMAIN fs
        /\ fs[OrganizeDest] # fs[media.path])
       => /\ fs'[OrganizeDest] = fs[OrganizeDest]
          /\ media.path \in DOMAIN fs'
          /\ fs'[media.path] = fs[media.path]]_vars

\* C10: with rename and organize enabled, after the rename stage has met a
\* naming conflict the organize stage does not act: the files stay where
\* they are, unchanged.
C10_ConflictStopsOrganize ==
    [][(pc = "organize" /\ cfg.rename /\ cfg.organize /\ "FILE_CONFLICT" \in log)
       => (fs' = fs /\ attrs' = attrs /\ media'.path = media.path)]_vars


---------------------------------------------------------------------------
(* Properties of the functions called on their own, checked under          *)
(* SpecCalls.                                                              *)

\* C11: get_series_id_search maps the length of the result list to its
\* behaviour: no result returns 0 without the picker, one result returns that
\* result's show id without the picker, two or more results call the picker
\* exactly once and return the show id of the result it selected.
C11_SearchByLength ==
    (fn.name = "get_series_id_search" /\ fn.answer.kind = "results") =>
        LET shows == fn.answer.shows
        IN  /\ ~res.raised
            /\ Len(shows) = 0 => (res.id = 0 /\ res.picker = 0)
            /\ Len(shows) = 1 => (res.id = shows[1] /\ res.picker = 0)
            /\ Len(shows) >= 2 => (res.id = shows[fn.answer.pick] /\ res.picker = 1)

\* a search with two results where the user selects the second one
C11_Witness ==
    /\ fn.name = "get_series_id_search"
    /\ fn.answer.kind = "results"
    /\ Len(fn.answer.shows) = 2
    /\ fn.answer.pick = 2
    /\ res.id = fn.answer.shows[2]
    /\ res.picker = 1


\* the inputs typed into the picker that lie in 1..n
InRange(inputs, n) == {j \in 1..Len(inputs) : inputs[j] \in 1..n}

\* C12: pick_series over n >= 1 results: an integer input outside 1..n leads
\* to another prompt, never to a crash or a selection, and the function
\* returns results[k-1] (0-based) for the first input k within 1..n.
C12_PickerRePrompts ==
    [][(fn.name = "pick_series" /\ fn' = fn /\ res.status = "loop") =>
          LET n == Len(fn.results)
          IN  /\ Len(res'.inputs) > Len(res.inputs) => InRange(res.inputs, n) = {}
              /\ (res'.inputs = res.inputs /\ res'.status # "loop") =>
                    /\ res'.status = "returned"
                    /\ InRange(res.inputs, n) = {Len(res.inputs)}
                    /\ res'.item = fn.results[res.inputs[Len(res.inputs)]]]_vars

\* the picker returned the second of two results after the inputs 0 and 3
C12_Witness ==
    /\ fn.name = "pick_series"
    /\ Len(fn.results) = 2
    /\ res.status = "returned"
    /\ res.inputs = <<0, 3, 2>>
    /\ res.item = fn.results[2]


\* C13: a non-interactive get_series_id for a name without cached id, the
\* catalog holding more than one candidate, returns 0 instead of a guessed
\* candidate and caches nothing.
C13_AmbiguousIsNotFound ==
    (/\ fn.name = "get_series_id"
     /\ ~fn.interactive
     /\ ~fn.cached
     /\ fn.health = "up"
     /\ Len(fn.shows) > 1)
    => (~res.raised /\ res.id = 0 /\ ~HasOption(ids, fn.series))

\* C14: get_series_id keeps "could not ask" apart from "nothing found": a
\* transport failure, an HTTP error response or a malformed payload raises
\* and never gives 0, and 0 is returned only when the catalog answered and
\* held no show for the name.
C14_ZeroMeansNoMatch ==
    (fn.name = "get_series_id" /\ ~fn.cached) =>
        /\ fn.health # "up" => res.raised
        /\ (~res.raised /\ res.id = 0) => (fn.health = "up" /\ fn.shows = << >>)


\* C15: get_episode_title tests its prerequisites in the order series id,
\* season, episode: a resolved id of 0, else a season of 0, else an episode
\* of 0 makes it raise, with a message of its own for each of the three,
\* and no episodebynumber request is sent.
C15_PrerequisiteOrder ==
    (fn.name = "get_episode_title" /\ ~res.resolved.raised) =>
        /\ res.resolved.id = 0 =>
              (res.raised = "ValueError: No Series ID" /\ res.requests = 0)
        /\ (res.resolved.id # 0 /\ fn.season = 0) =>
              (res.raised = "ValueError: No Season" /\ res.requests = 0)
        /\ (res.resolved.id # 0 /\ fn.season # 0 /\ fn.episode = 0) =>
              (res.raised = "ValueError: No Episode Number" /\ res.requests = 0)
        /\ (res.resolved.id # 0 /\ fn.season # 0 /\ fn.episode # 0) =>
              (res.requests = 1 /\ res.raised \in {"", "RequestException"})

\* a resolved series, neither season nor episode: the season is reported
C15_Witness ==
    /\ fn.name = "get_episode_title"
    /\ ~res.resolved.raised
    /\ res.resolved.id # 0
    /\ fn.season = 0
    /\ fn.episode = 0
    /\ res.raised = "ValueError: No Season"
    /\ res.requests = 0


\* C16: get_season_id returns the id of the first entry of the season list
\* whose number is the requested season, and 0 when the list is empty or no
\* entry has that number.
C16_FirstSeasonMatch ==
    (fn.name = "get_season_id" /\ fn.health = "up") =>
        LET list == fn.list
            hits == {k \in 1..Len(list) : list[k].number = fn.season}
        IN  /\ res.raised = ""
            /\ hits = {} => res.id = 0
            /\ hits # {} =>
                  \E k \in hits : /\ \A j \in hits : k <= j
                                   /\ res.id = list[k].id

\* two entries for the requested season with different ids: the first wins
C16_Witness ==
    /\ fn.name = "get_season_id"
    /\ fn.health = "up"
    /\ Len(fn.list) = 2
    /\ fn.list[1].number = fn.season
    /\ fn.list[2].number = fn.season
    /\ fn.list[1].id # fn.list[2].id
    /\ res.id = fn.list[1].id


\* C18: transform is a function of the field value and the alias table
\* alone: it returns the name the alias section holds for the value when
\* the section has an entry for it, and the value itself otherwise.
C18_TransformByAlias ==
    fn.name = "transform" =>
        res.value = IF /\ fn.section.present
                       /\ StrLower(fn.series) \in DOMAIN fn.section.opts
                    THEN fn.section.opts[StrLower(fn.series)]
                    ELSE fn.series

\* C19: TV objects are ordered by season, then episode: a < b exactly when
\* (a.season, a.episode) is lexicographically smaller than (b.season,
\* b.episode), and a == b when both numbers are equal.
C19_OrderBySeasonEpisode ==
    fn.name = "compare" =>
        /\ res.lt <=> \/ fn.a.season < fn.b.season
                      \/ fn.a.season = fn.b.season /\ fn.a.episode < fn.b.episode
        /\ (fn.a.season = fn.b.season /\ fn.a.episode = fn.b.episode) => res.eq

\* C20: when the title left by the tag stripping starts with "E" and two
\* digits, then if their value is episode + 1 the episode becomes the range
\* "<episode>-<digits>" and the title the text after the marker, and if it
\* is any other value the episode and the title stay as they are.
C20_DoubleEpisode ==
    (/\ fn.name = "get_file_info"
     /\ Len(res.stripped) >= 3
     /\ res.stripped[1] = "E"
     /\ IsDigit(res.stripped[2])
     /\ IsDigit(res.stripped[3]))
    => LET t == res.stripped
           next == 10 * DigitVal(t[2]) + DigitVal(t[3])
       IN  IF next = StrToInt(fn.episode) + 1
           THEN /\ res.episode = fn.episode \o <<"-", t[2], t[3]>>
                /\ res.title = StrStrip(Sub(t, 4, Len(t)))
           ELSE /\ res.episode = fn.episode
                /\ res.title = t

\* "E02 720p" after episode 01: the range 01-02 and no title
C20_Witness ==
    /\ fn.name = "get_file_info"
    /\ fn.episode = <<"0","1">>
    /\ fn.title = <<"E","0","2"," ","7","2","0","p">>
    /\ res.episode = <<"0","1","-","0","2">>
    /\ res.title = << >>

\* C27: update_config reverts the runtime changes before it writes: a value
\* an option got only in memory during the run is not written to the file,
\* whether the file held the option (then its value stays) or not (then
\* the file gets at most the value the option had when the run started).
C27_RuntimeChangesReverted ==
    fn.name = "update_config" =>
        \A k \in DOMAIN res.file :
            /\ k \in DOMAIN fn.file => res.file[k] = fn.file[k]
            /\ (k \notin DOMAIN fn.file /\ k[1] # "tvmaze/ids") =>
                  res.file[k] = ConfigGet(fn.loaded, k)

\* C28: files.move does not overwrite: when the destination exists, or is
\* the source, nothing is moved and every path keeps its content.
C28_MoveKeepsExisting ==
    (fn.name = "move" /\ (fn.dst \in DOMAIN fn.fs \/ fn.src = fn.dst)) =>
        res.fs = fn.fs

---------------------------------------------------------------------------
(* The keys of the cache, checked under SpecResolver.                      *)

\* C17: the cache is keyed by the exact, case-sensitive name: once a name n
\* has been resolved and cached, a call for a name that differs from n only
\* in letter case, and was not resolved itself, is a cache miss that asks
\* the catalog and leaves the entry of n alone.
C17_CaseSensitiveCache ==
    [][\A k \in 1..Len(calls') :
          LET before == NoteReturned(returned, SubSeq(calls', 1, k - 1))
              c == calls'[k]
          IN  (/\ c.series \notin DOMAIN before
               /\ \E n \in DOMAIN before :
                     n # c.series /\ StrLower(n) = StrLower(c.series))
              => (c.lookup # "local" /\ c.requests = 1)]_vars


\* C17, as the code has it: option names are lower-cased, so once a name n
\* has been resolved and cached, a call for any name that differs from n at
\* most in letter case is a cache hit: local, without request, returning the
\* id of n, and the entry keeps that id.
C17_CaseFoldedCache ==
    [][\A k \in 1..Len(calls') :
          LET before == NoteReturned(returned, SubSeq(calls', 1, k - 1))
              c == calls'[k]
          IN  \A n \in DOMAIN before :
                 StrLower(n) = StrLower(c.series) =>
                    /\ c.lookup = "local"
                    /\ c.requests = 0
                    /\ ~c.raised
                    /\ c.id = before[n]
                    /\ HasOption(ids', n)
                    /\ GetOption(cfg, ids', n) = IntToStr(before[n])]_vars

\* "Ab" answered from the cache with the id 2 that a lookup of "ab" returned
C17_Witness ==
    /\ Len(calls) = 1
    /\ calls[1].series = <<"A","b">>
    /\ calls[1].lookup = "local"
    /\ calls[1].id = 2
    /\ <<"a","b">> \in DOMAIN returned
    /\ returned[<<"a","b">>] = 2
    /\ ids.opts[<<"a","b">>] = <<"2">>


---------------------------------------------------------------------------
(* Properties of the process command, checked under Spec.                  *)

\* C21: round trip: the file name generated from the record a file is
\* renamed by (TV.__str__ plus the extension) is matched by the patterns,
\* and infer on that name, under the same alias table, gives a record with
\* the same series, season, episode and title.
C21_RoundTrip ==
    (pc = "rename" /\ cfg.rename) =>
        \E r \in {Reinfer(cfg, alias, media, Suffix(media.path.name))} :
            /\ r.ok
            /\ r.record.series = media.series
            /\ r.record.season = media.season
            /\ r.record.episode = media.episode
            /\ r.record.title = media.title


\* C23: with fetch enabled the fetcher is consulted only for a missing
\* title: a title inferred from the file name is not replaced by the fetch
\* stage, and never by an empty title from an unsuccessful episode lookup.
C23_FetchOnlyMissingTitle ==
    [][(pc = "fetch" /\ cfg.fetch /\ media.title # << >>) =>
          media'.title = media.title]_vars

\* C24: when the fetch stage raises, the remaining stages of the file are
\* aborted: rename and organize do not run, the file keeps its name and
\* place, and the title of the record is not modified.
C24_FetchFailureAborts ==
    [][/\ (pc = "fetch" /\ pc' = "raised") =>
             /\ media' = media
             /\ fs' = fs /\ dirs' = dirs /\ attrs' = attrs
             /\ stages' = <<"infer", "fetch">>
       /\ (pc = "raised" /\ LastStage = "fetch") =>
             /\ pc' = "idle"
             /\ media' = media
             /\ fs' = fs /\ dirs' = dirs /\ attrs' = attrs
             /\ stages' = stages]_vars

\* the fetch of a file with an inferred title failed on a request, rename
\* being enabled: rename did not run, the file is where it was
C24_Witness ==
    /\ pc = "raised"
    /\ err = "RequestException"
    /\ cfg.rename
    /\ stages = <<"infer", "fetch">>
    /\ media.title # << >>
    /\ media.path \in DOMAIN fs

\* C25: with simulate, organize changes nothing on the filesystem: no
\* directory is created, no file moved, neither the mode nor the owner of
\* the file changed, and media.path stays.
C25_OrganizeSimulate ==
    [][(pc = "organize" /\ cfg.organize /\ cfg.simulate) =>
          /\ fs' = fs
          /\ dirs' = dirs
          /\ attrs' = attrs
          /\ media'.path = media.path]_vars

\* C26: a chmod or chown that fails with PermissionError after the move is
\* logged and does not block completion: organize returns the new path and
\* Processor.process returns the media, no exception reaching the caller.
C26_PermissionFailureLogged ==
    (/\ pc \in {"return", "raised"}
     /\ LastStage = "organize"
     /\ media.path \in DOMAIN fs)
    => (pc = "return" /\ err = "")

\* C30: throughout Processor.process the path of the media names the file
\* where it is.  On every step of a process call whose file exists: the path
\* names the same file afterwards; the path changes exactly when the file
\* left the place it had; and the path and the files stay as they are when
\* the stage is skipped by its flag, simulated, or (rename) stopped by an
\* existing destination.
C30_PathIsLocation ==
    [][(pc \in {"fetch", "rename", "organize", "return", "raised"}
        /\ media.path \in DOMAIN fs) =>
          /\ media'.path \in DOMAIN fs'
          /\ fs'[media'.path] = fs[media.path]
          /\ (media'.path # media.path) <=> (media.path \notin DOMAIN fs')
          /\ (\/ pc \in {"fetch", "return", "raised"}
              \/ cfg.simulate
              \/ (pc = "rename" /\ ~cfg.rename)
              \/ (pc = "organize" /\ ~cfg.organize)
              \/ (pc = "rename" /\ WithStem(media.path, TVStr(media)) \in DOMAIN fs))
                => (media'.path = media.path /\ fs' = fs)]_vars

\* a process call has renamed its file and moved it to the library, and the
\* path names it there
C30_Witness ==
    /\ pc = "return"
    /\ stages = <<"infer", "rename", "organize">>
    /\ ~cfg.simulate
    /\ cli.files[cli.i] \notin DOMAIN fs
    /\ media.path \in DOMAIN fs
    /\ media.path.dir = OrgDir(media)
    /\ media.path.name # cli.files[cli.i].name

---------------------------------------------------------------------------
(* The cache over a sequence of calls, checked under SpecResolver.         *)

\* C22: the cache is append-only: over any sequence of get_series_id and
\* fetch calls the section is never removed, no entry is removed or given
\* another id, and the only change is the addition of an entry under the
\* name of the call, which had none.
C22_CacheAppendOnly ==
    [][/\ ids.present => ids'.present
       /\ \A k \in DOMAIN ids.opts :
             k \in DOMAIN ids'.opts /\ ids'.opts[k] = ids.opts[k]
       /\ \A k \in DOMAIN ids'.opts \ DOMAIN ids.opts :
             \E j \in 1..Len(calls') : k = StrLower(calls'[j].series)]_vars

\* a remote lookup of "ab" adds its entry next to the one "Mode" already had
C22_Witness ==
    /\ Len(calls) >= 1
    /\ StrLower(calls[1].series) = <<"a","b">>
    /\ calls[1].lookup # "local"
    /\ calls[1].id # 0
    /\ <<"a","b">> \in DOMAIN ids.opts
    /\ <<"m","o","d","e">> \in DOMAIN ids.opts


\* C29: a name without an entry of its own in the tvmaze/ids section is a
\* cache miss, also when it is the name of an option of the default section:
\* the call of get_series_id is not answered locally.
C29_DefaultOptionIsMiss ==
    [][(Len(calls') >= 1 /\ StrLower(calls'[1].series) \notin DOMAIN ids.opts)
          => calls'[1].lookup # "local"]_vars


===========================================================================
